---- MODULE Spec2Model ----
(***************************************************************************)
(* LyfSim (src/lyfsim.py): the year-by-year life simulator.                *)
(*                                                                         *)
(* A world is one Python process image as far as the simulator is          *)
(* concerned: the LifeSimulator object (`simulator`), the current Person   *)
(* (`person`) and the list objects Persons refer to (`heap`).  Every call  *)
(* of the random module is an input of the step that makes it; `rng` is    *)
(* the support of the random source in the run at hand.  `twin` is a       *)
(* second world that is fed exactly the same draws (used to state the      *)
(* two-run properties); it is None when a single run is checked.  `fs` is  *)
(* the part of the file system the constructor touches: the data directory *)
(* and data/occupation_income.csv.  `drawn` holds the values the random    *)
(* module returned in the last step that called it.                        *)
(* `other` is a second simulate_life running on the same simulator and     *)
(* heap, and `gui` the state of the run_gui window; each is None in the    *)
(* specifications that do not use it.                                      *)
(*                                                                         *)
(* Probabilities and random() draws are integers in units of 1/2000, so    *)
(* that 0.001 is 2 and a draw can fall strictly between two thresholds.    *)
(***************************************************************************)
EXTENDS Integers, Sequences, FiniteSets, TLC

VARIABLES pc, person, heap, simulator, rng, twin, calls, fs, drawn, other, gui

vars == <<pc, person, heap, simulator, rng, twin, calls, fs, drawn, other, gui>>

None == [none |-> TRUE]

(***************************************************************************)
(* Bounds of the model                                                     *)
(***************************************************************************)
\* most random life events that fire in one life
MaxEvents == 2
\* randint(min_income, max_income) is sampled at 0/IncomeSteps .. IncomeSteps/IncomeSteps of the range
IncomeSteps == 2

(***************************************************************************)
(* LifeSimulator.__init__ : the tables                                     *)
(***************************************************************************)
location_types == <<"rural", "suburban", "urban">>

\* lengths of names_by_location[loc]['first_names'] / ['last_names']
names_by_location ==
    [rural    |-> [first_names |-> 32, last_names |-> 23],
     suburban |-> [first_names |-> 32, last_names |-> 24],
     urban    |-> [first_names |-> 32, last_names |-> 24]]

\* probabilities in units of 1/2000
education_paths ==
    [rural    |-> [high_school |-> 1500, college |-> 400, graduate |-> 100],
     suburban |-> [high_school |-> 1200, college |-> 700, graduate |-> 100],
     urban    |-> [high_school |-> 1000, college |-> 800, graduate |-> 200]]

career_paths ==
    [high_school |-> <<"retail", "manufacturing", "service", "trades", "military">>,
     college     |-> <<"office_worker", "teacher", "nurse", "manager", "engineer">>,
     graduate    |-> <<"doctor", "lawyer", "professor", "executive", "researcher">>]

income_ranges ==
    [retail        |-> <<25000, 35000>>,
     manufacturing |-> <<35000, 55000>>,
     service       |-> <<20000, 30000>>,
     trades        |-> <<40000, 70000>>,
     military      |-> <<35000, 80000>>,
     office_worker |-> <<35000, 65000>>,
     teacher       |-> <<35000, 55000>>,
     nurse         |-> <<50000, 75000>>,
     manager       |-> <<55000, 95000>>,
     engineer      |-> <<65000, 120000>>,
     doctor        |-> <<150000, 400000>>,
     lawyer        |-> <<60000, 250000>>,
     professor     |-> <<45000, 85000>>,
     executive     |-> <<100000, 500000>>,
     researcher    |-> <<55000, 95000>>]

health_modifiers == [rural |-> 75, suburban |-> 80, urban |-> 70]

events ==
    <<"Got promoted at work", "Moved to a new city", "Had a major health issue",
      "Started a new relationship", "Bought a house", "Had financial difficulties">>

\* the rows ensure_data_files writes, keyed as load_income_data keys them
LoadedIncomeData ==
    [retail        |-> [median |-> 28500,  employment |-> "high"],
     manufacturing |-> [median |-> 42000,  employment |-> "medium"],
     service       |-> [median |-> 24000,  employment |-> "high"],
     trades        |-> [median |-> 48000,  employment |-> "medium"],
     military      |-> [median |-> 45000,  employment |-> "medium"],
     office_worker |-> [median |-> 38000,  employment |-> "high"],
     teacher       |-> [median |-> 47000,  employment |-> "high"],
     nurse         |-> [median |-> 65000,  employment |-> "high"],
     manager       |-> [median |-> 75000,  employment |-> "medium"],
     engineer      |-> [median |-> 95000,  employment |-> "high"],
     doctor        |-> [median |-> 220000, employment |-> "low"],
     lawyer        |-> [median |-> 125000, employment |-> "low"],
     professor     |-> [median |-> 58000,  employment |-> "low"],
     executive     |-> [median |-> 180000, employment |-> "low"],
     researcher    |-> [median |-> 72000,  employment |-> "low"]]

\* load_income_data returns {} when the file is missing or unreadable
EmptyIncomeData == [c \in {} |-> None]

Max(a, b) == IF a >= b THEN a ELSE b
Min(a, b) == IF a <= b THEN a ELSE b

(***************************************************************************)
(* LifeSimulator.__init__ : ensure_data_files and load_income_data         *)
(*                                                                         *)
(* fs.dir says whether data/ exists; fs.file.kind is "missing",            *)
(* "unreadable" (open or read raises) or "rows", with fs.file.rows the     *)
(* rows csv.DictReader yields; fs.mkdir and fs.write say what os.makedirs  *)
(* and the write of the data set will do.                                  *)
(* A cell of the median_income column is a number or text that int()       *)
(* rejects; a row may lack a column.                                       *)
(***************************************************************************)
\* a cell of the median_income column: the text of a number, or other text
Num(n)  == [numeric |-> TRUE, value |-> n]
NotANumber == [numeric |-> FALSE, value |-> 0]

\* most rows in a data file the loader is run on
MaxRows == 2

\* the data set ensure_data_files writes (income_data[1:], under its header)
BuiltinRows ==
    <<[occupation |-> "retail_salesperson",   median_income |-> Num(28500), employment_level |-> "high"],
      [occupation |-> "manufacturing_worker", median_income |-> Num(42000), employment_level |-> "medium"],
      [occupation |-> "food_service",         median_income |-> Num(24000), employment_level |-> "high"],
      [occupation |-> "construction_worker",  median_income |-> Num(48000), employment_level |-> "medium"],
      [occupation |-> "military_enlisted",    median_income |-> Num(45000), employment_level |-> "medium"],
      [occupation |-> "office_clerk",         median_income |-> Num(38000), employment_level |-> "high"],
      [occupation |-> "teacher",              median_income |-> Num(47000), employment_level |-> "high"],
      [occupation |-> "registered_nurse",     median_income |-> Num(65000), employment_level |-> "high"],
      [occupation |-> "manager",              median_income |-> Num(75000), employment_level |-> "medium"],
      [occupation |-> "software_engineer",    median_income |-> Num(95000), employment_level |-> "high"],
      [occupation |-> "physician",            median_income |-> Num(220000), employment_level |-> "low"],
      [occupation |-> "lawyer",               median_income |-> Num(125000), employment_level |-> "low"],
      [occupation |-> "professor",            median_income |-> Num(58000), employment_level |-> "low"],
      [occupation |-> "executive",            median_income |-> Num(180000), employment_level |-> "low"],
      [occupation |-> "researcher",           median_income |-> Num(72000), employment_level |-> "low"]>>

career_mapping ==
    [retail        |-> "retail_salesperson",
     manufacturing |-> "manufacturing_worker",
     service       |-> "food_service",
     trades        |-> "construction_worker",
     military      |-> "military_enlisted",
     office_worker |-> "office_clerk",
     teacher       |-> "teacher",
     nurse         |-> "registered_nurse",
     manager       |-> "manager",
     engineer      |-> "software_engineer",
     doctor        |-> "physician",
     lawyer        |-> "lawyer",
     professor     |-> "professor",
     executive     |-> "executive",
     researcher    |-> "researcher"]

MissingFile    == [kind |-> "missing", rows |-> <<>>]
UnreadableFile == [kind |-> "unreadable", rows |-> <<>>]
DataFile(rows) == [kind |-> "rows", rows |-> rows]

\* the simulator object once __init__ has returned
Constructed(data) == [real_income_data |-> data, income_ranges |-> income_ranges]

\* the file system of an installation whose first run has created the data set
InstalledFs == [dir |-> TRUE, mkdir |-> "ok", write |-> "ok", file |-> DataFile(BuiltinRows)]

\* ensure_data_files: the file system it leaves, and whether it raised
ensure_data_files(f) ==
    IF ~f.dir /\ f.mkdir = "raises"
    THEN [raised |-> TRUE, fs |-> f]
    ELSE LET made == [f EXCEPT !.dir = TRUE]
         IN  IF made.file.kind # "missing" THEN [raised |-> FALSE, fs |-> made]
             ELSE CASE made.write = "ok"      -> [raised |-> FALSE, fs |-> [made EXCEPT !.file = DataFile(BuiltinRows)]]
                    [] made.write = "no_open" -> [raised |-> FALSE, fs |-> made]
                    [] OTHER                  -> [raised |-> FALSE, fs |-> [made EXCEPT !.file = DataFile(<<>>)]]

\* row[column], int(row['median_income']) : does reading this row raise
row_raises(row) ==
    \/ "occupation" \notin DOMAIN row
    \/ /\ \E c \in DOMAIN career_mapping : career_mapping[c] = row.occupation
       /\ \/ "median_income" \notin DOMAIN row
          \/ ~row.median_income.numeric
          \/ "employment_level" \notin DOMAIN row

\* the body of "for row in reader" on one row that does not raise
load_row(income_data, row) ==
    LET hit == {c \in DOMAIN career_mapping : career_mapping[c] = row.occupation}
    IN  [c \in DOMAIN income_data \cup hit |->
            IF c \in hit
            THEN [median |-> row.median_income.value, employment |-> row.employment_level]
            ELSE income_data[c]]

RECURSIVE load_rows(_, _, _)
\* the for loop from row i on: the mapping built, and whether a row raised
load_rows(rows, i, income_data) ==
    IF i > Len(rows) THEN [raised |-> FALSE, income_data |-> income_data]
    ELSE IF row_raises(rows[i]) THEN [raised |-> TRUE, income_data |-> income_data]
    ELSE load_rows(rows, i + 1, load_row(income_data, rows[i]))

\* the except branch keeping what was loaded before the failure
on_load_error_keep(income_data) == income_data

\* except Exception: ... falls through to "return {}"
on_load_error(income_data) == [c \in {} |-> None]

load_income_data(f) ==
    IF f.file.kind = "missing" THEN [c \in {} |-> None]
    ELSE IF f.file.kind = "unreadable" THEN on_load_error([c \in {} |-> None])
    ELSE LET r == load_rows(f.file.rows, 1, [c \in {} |-> None])
         IN  IF r.raised THEN on_load_error(r.income_data) ELSE r.income_data

(***************************************************************************)
(* The random module.  choice(seq) is seq[i] for the drawn index i,        *)
(* randint(a, b) is sampled on a grid of IncomeSteps+1 points of [a, b],   *)
(* random() is the drawn number of 1/2000ths.                              *)
(***************************************************************************)
choice(seq, i) == seq[i]

randint(a, b, u) == a + ((b - a) * u) \div IncomeSteps

(***************************************************************************)
(* Person and the list objects                                             *)
(***************************************************************************)
\* one list object made once and handed to every Person (a shared default)
post_init_shared(h) ==
    IF Len(h) = 0 THEN [heap |-> Append(h, <<>>), ref |-> 1]
    ELSE [heap |-> h, ref |-> 1]

\* Person.__post_init__ : self.life_events = []  (a new list object)
post_init(h) == [heap |-> Append(h, <<>>), ref |-> Len(h) + 1]

\* the entry put at the head of the list: life_events.insert(0, entry)
append_front(h, ref, entry) == [h EXCEPT ![ref] = <<entry>> \o @]

\* person.life_events.append(entry)
append(h, ref, entry) == [h EXCEPT ![ref] = Append(@, entry)]

\* the entries of life_events, one constructor per f-string of the source
Born(location, health)  == [kind |-> "Born in", location |-> location, health |-> health]
Completed(age, level)   == [kind |-> "Completed", age |-> age, what |-> level]
Started(age, career)    == [kind |-> "Started career as", age |-> age, what |-> career]
\* the event entry stamped with the age before the year's increment
Happened_last_year(age, event) == [kind |-> "Event", age |-> age - 1, what |-> event]
Happened(age, event)    == [kind |-> "Event", age |-> age, what |-> event]
Died(age)               == [kind |-> "Died at age", age |-> age]

\* a Person as the caller reads it: the fields, life_events dereferenced
View(w) ==
    IF w.person = None THEN None
    ELSE [w.person EXCEPT !.life_events = w.heap[w.person.life_events]]

(***************************************************************************)
(* LifeSimulator: the pure parts                                           *)
(***************************************************************************)
\* generate_name: the indices of the two names drawn from the location's pools
generate_name(location_type, d) ==
    <<location_type, d.first_name, d.last_name>>

\* the clamp with min and max exchanged: min(20, max(100, base_health))
starting_health_swapped(base_health) == Min(20, Max(100, base_health))

\* health = max(20, min(100, base_health))
starting_health(base_health) == Max(20, Min(100, base_health))

generate_starting_conditions(w, d) ==
    LET location    == choice(location_types, d.location)
        base_health == health_modifiers[location] + d.offset
        health      == starting_health(base_health)
        obj         == post_init(w.heap)
        p == [name            |-> generate_name(location, d),
              age             |-> 18,
              education_level |-> "none",
              income          |-> 0,
              health          |-> health,
              location_type   |-> location,
              career          |-> "student",
              life_events     |-> obj.ref]
    IN  [w EXCEPT !.person = p,
                  !.heap   = append(obj.heap, obj.ref, Born(location, health))]

\* the if/elif/else of choose_education with "<=" for "<"
choose_level_inclusive(probabilities, rand) ==
    IF rand <= probabilities.graduate THEN "graduate"
    ELSE IF rand <= probabilities.graduate + probabilities.college THEN "college"
    ELSE "high_school"

\* the if/elif/else of choose_education
choose_level(probabilities, rand) ==
    IF rand < probabilities.graduate THEN "graduate"
    ELSE IF rand < probabilities.graduate + probabilities.college THEN "college"
    ELSE "high_school"

choose_education(p, rand) == choose_level(education_paths[p.location_type], rand)

\* choose_career reading the pool of a fixed level
choose_career_unskilled(education_level, i) == choice(career_paths["high_school"], i)

choose_career(education_level, i) == choice(career_paths[education_level], i)

\* int(base * experience_multiplier) in IEEE-754 doubles is one below the
\* exact product for these (age, base) pairs and equal to it everywhere else
\* over ages 19..95 and the bases of income_ranges.
DoubleTruncatesBelow(a) ==
        CASE a = 30 -> {25000, 50000, 55000, 95000, 100000, 400000}
          [] a = 40 -> {20000, 30000, 35000, 40000, 45000, 60000, 65000, 70000,
                        75000, 80000, 85000, 95000, 120000, 150000, 250000, 500000}
          [] a = 41 -> {20000, 35000, 40000, 45000, 70000, 75000, 80000, 85000, 150000}
          [] a = 42 -> {45000, 85000}
          [] OTHER  -> {}

\* experience_multiplier, in hundredths
experience_multiplier(age) == Min(150, 100 + (age - 22) * 2)

scaled(base, age) ==
    (base * experience_multiplier(age)) \div 100
        - (IF base \in DoubleTruncatesBelow(age) THEN 1 ELSE 0)

\* calculate_income centring the range on the loaded median when there is one
calculate_income_from_median(self, career, age, u) ==
    LET known      == career \in DOMAIN self.real_income_data
        base_min   == IF known THEN (self.real_income_data[career].median * 8) \div 10
                      ELSE self.income_ranges[career][1]
        base_max   == IF known THEN (self.real_income_data[career].median * 12) \div 10
                      ELSE self.income_ranges[career][2]
        min_income == (base_min * experience_multiplier(age)) \div 100
        max_income == (base_max * experience_multiplier(age)) \div 100
    IN  randint(min_income, max_income, u)

calculate_income(self, career, age, u) ==
    LET base_min   == self.income_ranges[career][1]
        base_max   == self.income_ranges[career][2]
        min_income == scaled(base_min, age)
        max_income == scaled(base_max, age)
    IN  randint(min_income, max_income, u)

\* the transition test without the "still none" conjunct, from 22 on
resolves_every_year(p) == p.age >= 22

\* if person.age == 22 and person.education_level == "none"
resolves(p) == p.age = 22 /\ p.education_level = "none"

\* if person.career != "student" and person.age >= 22
working(p) == p.career # "student" /\ p.age >= 22

\* the decline test one year early: person.age >= 40
declines_from_40(p) == p.age >= 40

\* if person.age > 40
declines(p) == p.age > 40

\* health_after without the floor: person.health - health_decline
health_after_unclamped(health, health_decline) == health - health_decline

\* person.health = max(0, person.health - health_decline)
health_after(health, health_decline) == Max(0, health - health_decline)

\* if random.random() < 0.1
fires(rand) == rand < 200

\* death_probability with the age term ten times steeper: (age - 60) * 0.02
death_probability_steep(p) == Max(2, (p.age - 60) * 40 + (100 - p.health) * 2)

\* death_probability of simulate_life, in 1/2000ths
death_probability(p) == Max(2, (p.age - 60) * 4 + (100 - p.health) * 2)

\* the random life event also applied to the person: a health issue costs health
random_life_event_applied(w, d) ==
    IF fires(d.fire)
    THEN LET event == choice(events, d.event)
             p == IF event = "Had a major health issue"
                  THEN [w.person EXCEPT !.health = Max(0, @ - 10)]
                  ELSE w.person
         IN  [w EXCEPT !.person = p,
                       !.heap = append(w.heap, p.life_events, Happened(p.age, event))]
    ELSE w

\* the event block without its test: an entry is logged every year
random_life_event_always(w, d) ==
    [w EXCEPT !.heap = append(w.heap, w.person.life_events,
                              Happened(w.person.age, choice(events, Max(1, d.event))))]

\* the "Random life events" block of simulate_year
random_life_event(w, d) ==
    IF fires(d.fire)
    THEN [w EXCEPT !.heap = append(w.heap, w.person.life_events,
                                   Happened(w.person.age, choice(events, d.event)))]
    ELSE w

simulate_year(w, d) ==
    LET p0 == w.person
        p1 == [p0 EXCEPT !.age = @ + 1]
        resolve == resolves(p1)
        level   == choose_education(p1, d.edu)
        career  == choose_career(level, d.career)
        p2 == IF resolve
              THEN [p1 EXCEPT !.education_level = level, !.career = career]
              ELSE p1
        h2 == IF resolve
              THEN append(append(w.heap, p1.life_events, Completed(p1.age, level)),
                          p1.life_events, Started(p1.age, career))
              ELSE w.heap
        p3 == IF working(p2)
              THEN [p2 EXCEPT !.income = calculate_income(w.simulator, p2.career, p2.age, d.income)]
              ELSE p2
        p4 == IF declines(p3)
              THEN [p3 EXCEPT !.health = health_after(@, d.decline)]
              ELSE p3
    IN  random_life_event([w EXCEPT !.person = p4, !.heap = h2], d)

\* the loop test with the age cap off by one: person.age <= 95
alive_through_cap(p) == p.health > 0 /\ p.age <= 95

\* the loop test without the health test: person.age < 95
alive_by_age_only(p) == p.age < 95

\* the loop test of simulate_life
alive(p) == p.health > 0 /\ p.age < 95

\* the tail of simulate_life writing the age of the year that was not simulated
finalize_next_year(w) ==
    [w EXCEPT !.heap = append(w.heap, w.person.life_events, Died(w.person.age + 1))]

\* the tail of simulate_life: person.life_events.append(f"Died at age {person.age}")
finalize(w) ==
    [w EXCEPT !.heap = append(w.heap, w.person.life_events, Died(w.person.age))]

(***************************************************************************)
(* The random source.  Each record gives, per call site of the random      *)
(* module, the values the source may return in a run.  The three sources   *)
(* split the draws so that each dimension is explored in full somewhere:   *)
(* health and the age cap, education/career/income, and the event log.     *)
(***************************************************************************)
SourceHealth ==
    [first_name |-> {1}, last_name |-> {1},
     location   |-> {1, 2, 3},
     offset     |-> {-15, 15},
     edu        |-> {1001},
     career     |-> {1},
     income     |-> {0},
     decline    |-> {0, 1, 2},
     fire       |-> {1999},
     event      |-> {1},
     death      |-> {1, 1999}]

SourceCareer ==
    [first_name |-> {1}, last_name |-> {1},
     location   |-> {1, 2, 3},
     offset     |-> {0},
     edu        |-> {0, 1, 99, 100, 101, 199, 200, 201, 499, 500, 501,
                     799, 800, 801, 999, 1000, 1001, 1999},
     career     |-> 1..5,
     income     |-> 0..IncomeSteps,
     decline    |-> {1},
     fire       |-> {1999},
     event      |-> {1},
     death      |-> {1, 1999}]

SourceEvents ==
    [first_name |-> {1}, last_name |-> {1},
     location   |-> {3},
     offset     |-> {-15},
     edu        |-> {1001},
     career     |-> {1},
     income     |-> {0},
     decline    |-> {2},
     fire       |-> {1, 199, 201, 1999},
     event      |-> {1, 6},
     death      |-> {5, 21}]

\* every starting condition, one year of life
SourceBirth ==
    [first_name |-> {1, 2}, last_name |-> {1, 2},
     location   |-> {1, 2, 3},
     offset     |-> -15..15,
     edu        |-> {1001},
     career     |-> {1},
     income     |-> {0},
     decline    |-> {0},
     fire       |-> {1999},
     event      |-> {1},
     death      |-> {1}]

Sources == {SourceHealth, SourceCareer, SourceEvents, SourceBirth}

\* the draws of generate_starting_conditions (and generate_name)
StartDraws ==
    [location : rng.location, offset : rng.offset,
     first_name : rng.first_name, last_name : rng.last_name]

NumEvents(log) == Cardinality({i \in 1..Len(log) : log[i].kind = "Event"})

\* the draws of one simulate_year: a call site the year does not reach draws
\* nothing (0); the event fires at most MaxEvents times in a life
YearDrawsOf(p, h) ==
    LET p1       == [p EXCEPT !.age = @ + 1]
        resolve  == resolves(p1)
        earns    == IF resolve THEN p1.age >= 22 ELSE working(p1)
        may_fire == NumEvents(h[p.life_events]) < MaxEvents
        rest == [edu     : IF resolve THEN rng.edu ELSE {0},
                 career  : IF resolve THEN rng.career ELSE {0},
                 income  : IF earns THEN rng.income ELSE {0},
                 decline : IF declines(p1) THEN rng.decline ELSE {0}]
        ev   == [fire : {r \in rng.fire : ~fires(r)}, event : {0}]
                \cup [fire : {r \in rng.fire : fires(r) /\ may_fire}, event : rng.event]
    IN  {[edu |-> a.edu, career |-> a.career, income |-> a.income, decline |-> a.decline,
          fire |-> b.fire, event |-> b.event] : a \in rest, b \in ev}

YearDraws == YearDrawsOf(person, heap)

(***************************************************************************)
(* simulate_life, step by step                                             *)
(***************************************************************************)
World == [person |-> person, heap |-> heap, simulator |-> simulator]

\* both worlds take the step op
Apply(op(_)) ==
    /\ person' = op(World).person
    /\ heap' = op(World).heap
    /\ twin' = IF twin = None THEN None ELSE op(twin)
    /\ simulator' = op(World).simulator
    /\ UNCHANGED <<rng, fs, other, gui>>

\* person = self.generate_starting_conditions()
GenerateStartingConditions ==
    /\ pc = "start"
    /\ \E d \in StartDraws :
          /\ Apply(LAMBDA w : generate_starting_conditions(w, d))
          /\ drawn' = d
    /\ pc' = "while"
    /\ UNCHANGED calls

\* while person.health > 0 and person.age < 95: self.simulate_year(person)
SimulateYear ==
    /\ pc = "while"
    /\ alive(person)
    /\ \E d \in YearDraws :
          /\ Apply(LAMBDA w : simulate_year(w, d))
          /\ drawn' = d
    /\ pc' = "death"
    /\ calls' = calls + 1

\* the loop test fails
LoopExit ==
    /\ pc = "while"
    /\ ~alive(person)
    /\ pc' = "exit"
    /\ UNCHANGED <<person, heap, simulator, rng, twin, calls, fs, drawn, other, gui>>

\* if random.random() < death_probability: break
DeathDraw ==
    /\ pc = "death"
    /\ \E r \in rng.death :
          /\ pc' = IF r < death_probability(person) THEN "exit" ELSE "while"
          /\ drawn' = [death |-> r]
    /\ UNCHANGED <<person, heap, simulator, rng, twin, calls, fs, other, gui>>

\* person.life_events.append(f"Died at age {person.age}"); return person
Finalize ==
    /\ pc = "exit"
    /\ Apply(finalize)
    /\ pc' = "done"
    /\ UNCHANGED <<calls, drawn>>

Init ==
    /\ pc = "start"
    /\ person = None
    /\ heap = <<>>
    /\ simulator = Constructed(LoadedIncomeData)
    /\ fs = InstalledFs
    /\ rng \in Sources
    /\ twin = None
    /\ calls = 0
    /\ drawn = None
    /\ other = None
    /\ gui = None

Next ==
    \/ GenerateStartingConditions
    \/ SimulateYear
    \/ LoopExit
    \/ DeathDraw
    \/ Finalize

Spec == Init /\ [][Next]_vars

(***************************************************************************)
(* Two runs on the same draws.  The second world is another process image: *)
(* its simulator may have loaded other income data, and an earlier         *)
(* simulate_life may already have run in it.                               *)
(***************************************************************************)
\* load_income_data on a file that holds other rows
OtherIncomeData ==
    [c \in {"retail", "office_worker", "doctor"} |->
        [median |-> 2 * LoadedIncomeData[c].median, employment |-> "low"]]

Fresh(data) ==
    [person |-> None, heap |-> <<>>, simulator |-> Constructed(data)]

\* the list objects an earlier simulate_life left behind (a life that ended at 19)
PriorHeap ==
    LET born == generate_starting_conditions(Fresh(LoadedIncomeData),
                    [location |-> 1, offset |-> 0, first_name |-> 1, last_name |-> 1])
        year == simulate_year(born,
                    [edu |-> 0, career |-> 0, income |-> 0, decline |-> 0,
                     fire |-> 1999, event |-> 0])
    IN  finalize(year).heap

TwinWorlds ==
    { Fresh(EmptyIncomeData),
      [Fresh(LoadedIncomeData) EXCEPT !.heap = PriorHeap],
      [Fresh(OtherIncomeData) EXCEPT !.heap = PriorHeap] }

InitTwin ==
    /\ pc = "start"
    /\ person = None
    /\ heap = <<>>
    /\ simulator = Constructed(LoadedIncomeData)
    /\ fs = InstalledFs
    /\ rng \in {SourceCareer, SourceEvents}
    /\ twin \in TwinWorlds
    /\ calls = 0
    /\ drawn = None
    /\ other = None
    /\ gui = None

SpecTwin == InitTwin /\ [][Next]_vars

\* every run is scheduled until it returns
LiveSpec == Spec /\ WF_vars(Next)

(***************************************************************************)
(* Readings of the state used by the properties                            *)
(***************************************************************************)
created == pc # "start"
log == heap[person.life_events]
Levels == {"high_school", "college", "graduate"}
Range(seq) == {seq[i] : i \in 1..Len(seq)}
NumDied(l) == Cardinality({i \in 1..Len(l) : l[i].kind = "Died at age"})
\* the entries that carry an age, in log order
Aged(l) == SelectSeq(l, LAMBDA e : e.kind # "Born in")

TypeOK ==
    /\ pc \in {"new", "tables", "raised", "start", "while", "death", "exit", "done",
              "run_gui", "mainloop"}
    /\ calls \in 0..77

(***************************************************************************)
(* C1.  In every state of simulate_life from the freshly created Person    *)
(* to the finalized one: 18 <= age <= 95, 0 <= health <= 100, income >= 0. *)
(***************************************************************************)
C1_Ranges ==
    created =>
        /\ 18 <= person.age /\ person.age <= 95
        /\ 0 <= person.health /\ person.health <= 100
        /\ person.income >= 0

\* a finalized life that hit both boundaries: the age cap and the health floor
C1_Witness ==
    /\ pc = "done"
    /\ person.age = 95
    /\ person.health = 0
    /\ person.income > 0

(***************************************************************************)
(* C2.  Every run reaches Dead, after at most 77 calls of simulate_year;   *)
(* each simulated year adds exactly 1 to age, and no year is simulated     *)
(* once age = 95 or health = 0.                                            *)
(***************************************************************************)
C2_Terminates ==
    /\ <>(pc = "done")
    /\ [](calls <= 77)
    /\ [][created =>
            /\ calls' # calls => (calls' = calls + 1 /\ person'.age = person.age + 1)
            /\ person'.age # person.age => (calls' = calls + 1 /\ person'.age = person.age + 1)
            /\ (person.age = 95 \/ person.health = 0) => calls' = calls]_vars

\* the longest run: 77 simulated years
C2_Witness ==
    /\ pc = "done"
    /\ calls = 77

(***************************************************************************)
(* C3.  education_level is "none" while age < 22 and a resolved level from *)
(* age 22 on; it changes only in the year age becomes 22, and never again. *)
(***************************************************************************)
C3_Education ==
    /\ [](created =>
            /\ person.age < 22 => person.education_level = "none"
            /\ person.age >= 22 => person.education_level \in Levels)
    /\ [][created /\ person'.education_level # person.education_level =>
            /\ person.education_level = "none"
            /\ person.age = 21 /\ person'.age = 22]_vars

\* a life past 22 that resolved to the rarest level
C3_Witness ==
    /\ created
    /\ person.age > 22
    /\ person.education_level = "graduate"

(***************************************************************************)
(* C4.  career is "student" exactly when education_level is "none"; once   *)
(* education resolves the career is in the pool of the resolved level and  *)
(* never changes again.                                                    *)
(***************************************************************************)
C4_Career ==
    /\ [](created =>
            /\ person.career = "student" <=> person.education_level = "none"
            /\ person.education_level # "none" =>
                  person.career \in Range(career_paths[person.education_level]))
    /\ [][created /\ person.career # "student" => person'.career = person.career]_vars

\* a working life several years after the career was chosen
C4_Witness ==
    /\ created
    /\ person.age > 30
    /\ person.education_level = "college"
    /\ person.career = "engineer"

(***************************************************************************)
(* C5.  Health never increases: a year that ends with age <= 40 leaves it  *)
(* unchanged, a year that ends with age > 40 lowers it by 0, 1 or 2,       *)
(* floored at 0; no other step touches it.                                 *)
(***************************************************************************)
C5_Health ==
    [][created =>
        /\ person'.health <= person.health
        /\ person'.age = person.age => person'.health = person.health
        /\ (person'.age # person.age /\ person'.age <= 40) => person'.health = person.health
        /\ (person'.age # person.age /\ person'.age > 40) =>
              \E k \in 0..2 : person'.health = Max(0, person.health - k)]_vars

\* a year in which the floor cut the decline short: health 1, decline 2
C5_Witness ==
    /\ pc = "death"
    /\ person.health = 0
    /\ heap[person.life_events][1].health = 55
    /\ person.age = 68

(***************************************************************************)
(* C6.  The finalized life_events has at least 2 entries, birth first and  *)
(* death last, and the ages of the entries that carry one are in log order.*)
(* As claimed: each age strictly greater than the one before it.           *)
(***************************************************************************)
Framed(l) ==
    /\ Len(l) >= 2
    /\ l[1].kind = "Born in"
    /\ l[Len(l)].kind = "Died at age"

C6_StrictlyChronological ==
    pc = "done" =>
        /\ Framed(log)
        /\ \A i \in 1..(Len(Aged(log)) - 1) : Aged(log)[i].age < Aged(log)[i + 1].age

\* C6 as amended: each age is greater than or equal to the one before it
\* (the entries written in one year carry the same age).
C6_Chronological ==
    pc = "done" =>
        /\ Framed(log)
        /\ \A i \in 1..(Len(Aged(log)) - 1) : Aged(log)[i].age <= Aged(log)[i + 1].age

\* a finalized log in which an event and the death carry the same age, after the
\* two entries of age 22
C6_Witness ==
    /\ pc = "done"
    /\ person.age > 22
    /\ \E i \in 1..(Len(log) - 1) :
          /\ log[i].kind = "Event"
          /\ log[i + 1].kind = "Died at age"
          /\ log[i].age = log[i + 1].age

(***************************************************************************)
(* C7.  Boundary halting: once a simulated year has ended with health = 0  *)
(* or age = 95, no further year is simulated whatever the death draw       *)
(* returns, age is not advanced, and the death entry records that age.     *)
(***************************************************************************)
C7_BoundaryHalts ==
    [][(created /\ pc # "done" /\ (person.health = 0 \/ person.age = 95)) =>
        /\ calls' = calls
        /\ person' = person
        /\ pc' \in {"while", "exit", "done"}
        /\ pc' = "done" => heap'[person.life_events] = Append(log, Died(person.age))]_vars

\* health reached 0 before the age cap and the death draw did not fire:
\* the run is back at the loop test
C7_Witness ==
    /\ pc = "while"
    /\ person.health = 0
    /\ person.age < 95

(***************************************************************************)
(* C8.  Finalization: exactly one death entry is appended, last, with the  *)
(* Person's final age, only once the loop has exited, and nothing changes  *)
(* after it.                                                               *)
(***************************************************************************)
C8_Finalization ==
    /\ [](created => NumDied(log) = IF pc = "done" THEN 1 ELSE 0)
    /\ [](pc = "done" => log[Len(log)] = Died(person.age))
    /\ [][pc' = "exit" /\ pc # "exit" =>
            (pc = "while" /\ ~alive(person)) \/ pc = "death"]_vars
    /\ [][created /\ Len(heap'[person'.life_events]) # Len(log) /\ pc' = "done" =>
            pc = "exit" /\ person' = person]_vars
    /\ [][pc = "done" => UNCHANGED <<person, heap>>]_vars

\* a life ended by the death draw, finalized
C8_Witness ==
    /\ pc = "done"
    /\ alive(person)
    /\ NumDied(log) = 1

(***************************************************************************)
(* C9.  Determinism: a run in a process where the same simulator has       *)
(* already produced a life, fed the same draws as a first run, passes      *)
(* through the same Person states and ends with the same Person and log.   *)
(***************************************************************************)
C9_Deterministic ==
    (twin # None /\ twin.simulator = simulator) => View(twin) = View(World)

\* both runs finalized after working years, the second one next to an earlier life
C9_Witness ==
    /\ pc = "done"
    /\ twin # None
    /\ twin.simulator = simulator
    /\ Len(twin.heap) = 2
    /\ person.age > 22
    /\ NumEvents(log) > 0

(***************************************************************************)
(* C10.  The loaded income data is inert: simulators that differ only in   *)
(* real_income_data, fed the same draws, yield the same trajectory,        *)
(* incomes and log.                                                        *)
(***************************************************************************)
C10_IncomeDataInert ==
    (twin # None /\ twin.simulator # simulator) => View(twin) = View(World)

\* a finalized working life with an income, run with and without loaded data
C10_Witness ==
    /\ pc = "done"
    /\ twin # None
    /\ twin.simulator.real_income_data = EmptyIncomeData
    /\ person.career = "doctor"
    /\ person.income > 0

(***************************************************************************)
(* Construction: LifeSimulator() on a file system in any state             *)
(***************************************************************************)
\* rows a data file may hold: two of the data set, an occupation no career
\* maps to, a median that is not a number, a row cut short, a row read under
\* a header that has no occupation column
RowKinds ==
    { BuiltinRows[1], BuiltinRows[11],
      [occupation |-> "astronaut", median_income |-> Num(90000), employment_level |-> "low"],
      [occupation |-> "teacher", median_income |-> NotANumber, employment_level |-> "high"],
      [occupation |-> "lawyer"],
      [median_income |-> Num(58000), employment_level |-> "low"] }

RECURSIVE Files(_)
\* the row sequences of length n
Files(n) ==
    IF n = 0 THEN {<<>>}
    ELSE {Append(f, r) : f \in Files(n - 1), r \in RowKinds}

DataFiles ==
    {MissingFile, UnreadableFile, DataFile(BuiltinRows)}
        \cup {DataFile(rows) : rows \in UNION {Files(n) : n \in 0..MaxRows}}

InitBoot ==
    /\ pc = "new"
    /\ person = None
    /\ heap = <<>>
    /\ simulator = None
    /\ rng = SourceHealth
    /\ twin = None
    /\ calls = 0
    /\ drawn = None
    /\ other = None
    /\ gui = None
    /\ fs \in {f \in [dir : BOOLEAN, mkdir : {"ok", "raises"},
                      write : {"ok", "no_open", "partial"}, file : DataFiles] :
                  ~f.dir => f.file = MissingFile}

\* self.ensure_data_files()
EnsureDataFiles ==
    /\ pc = "new"
    /\ LET r == ensure_data_files(fs)
       IN  /\ fs' = r.fs
           /\ pc' = IF r.raised THEN "raised" ELSE "tables"
    /\ UNCHANGED <<person, heap, simulator, rng, twin, calls, drawn, other, gui>>

\* the tables, then self.real_income_data = self.load_income_data()
LoadIncomeData ==
    /\ pc = "tables"
    /\ simulator' = Constructed(load_income_data(fs))
    /\ pc' = "start"
    /\ UNCHANGED <<person, heap, rng, twin, calls, fs, drawn, other, gui>>

NextBoot ==
    \/ EnsureDataFiles
    \/ LoadIncomeData

SpecBoot == InitBoot /\ [][NextBoot]_vars

(***************************************************************************)
(* C11.  Loading never fails the caller: when the data file is missing, or *)
(* opening or reading it raises at some row, load_income_data returns the  *)
(* empty mapping, never a partly filled one and never an exception;        *)
(* construction completes and income_ranges is the built-in table.         *)
(***************************************************************************)
LoadFails(f) ==
    \/ f.file.kind \in {"missing", "unreadable"}
    \/ \E i \in 1..Len(f.file.rows) : row_raises(f.file.rows[i])

C12_CumulativeChoice ==
    [][(created /\ person'.education_level # person.education_level) =>
        LET r     == drawn'.edu
            P     == education_paths[person.location_type]
            level == person'.education_level
        IN  /\ level = "graduate" <=> r < P.graduate
            /\ level = "college" <=> (P.graduate <= r /\ r < P.graduate + P.college)
            /\ level = "high_school" <=> r >= P.graduate + P.college
            /\ \A q \in {0, P.high_school + 1, 2000} :
                  choose_level([P EXCEPT !.high_school = q], r) = level]_vars

\* the draw fell exactly on the cumulative threshold of college (suburban: 0.40)
C12_Witness ==
    /\ pc = "death"
    /\ person.age = 22
    /\ person.location_type = "suburban"
    /\ drawn.edu = 800
    /\ person.education_level = "high_school"

(***************************************************************************)
(* C13.  Income is 0 while career is "student"; a year that ends with a    *)
(* working career at age a >= 22 redraws income within                     *)
(* [trunc(min*m), trunc(max*m)], (min, max) the base range of the career   *)
(* and m = min(1.5, 1.0 + (a-22)*0.02) >= 1.0, so income lies between the  *)
(* base minimum and 1.5 times the base maximum, from age 22 on.            *)
(***************************************************************************)
\* trunc(base * m) in exact arithmetic
Truncated(base, age) == (base * Min(150, 100 + (age - 22) * 2)) \div 100

C13_IncomeRange ==
    /\ [](created /\ person.career = "student" => person.income = 0)
    /\ [][(pc = "while" /\ pc' = "death" /\ person'.career # "student") =>
            LET a     == person'.age
                range == income_ranges[person'.career]
            IN  /\ a >= 22
                /\ Min(150, 100 + (a - 22) * 2) >= 100
                /\ Truncated(range[1], a) <= person'.income
                /\ person'.income <= Truncated(range[2], a)
                /\ range[1] <= person'.income
                /\ 2 * person'.income <= 3 * range[2]]_vars

(***************************************************************************)
(* C14.  Firing the yearly random life event changes nothing but           *)
(* life_events: with the other draws of the year unchanged, every field of *)
(* the Person is the same whether or not the event fires and whichever of  *)
(* the six events is chosen; the only difference is one appended entry     *)
(* "Age N: <event>" with N the current age.                                *)
(***************************************************************************)
Quiet(d) == [d EXCEPT !.fire = 1999, !.event = 0]

C14_EventOnlyLogs ==
    [][(pc = "while" /\ pc' = "death") =>
        LET quiet == simulate_year(World, Quiet(drawn'))
            ref   == person.life_events
        IN  /\ person' = quiet.person
            /\ \A i \in 1..Len(heap') : i # ref => heap'[i] = quiet.heap[i]
            /\ log' = IF fires(drawn'.fire)
                      THEN Append(quiet.heap[ref],
                                  Happened(person'.age, events[drawn'.event]))
                      ELSE quiet.heap[ref]
            /\ \A e \in 1..Len(events) :
                  LET loud == simulate_year(World, [drawn' EXCEPT !.fire = 0, !.event = e])
                  IN  /\ loud.person = quiet.person
                      /\ loud.simulator = quiet.simulator
                      /\ loud.heap = [quiet.heap EXCEPT ![ref] =
                            Append(@, Happened(quiet.person.age, events[e]))]]_vars

C14_Witness ==
    /\ pc = "death"
    /\ person.age > 40
    /\ fires(drawn.fire)
    /\ log[Len(log)] = Happened(person.age, "Had financial difficulties")

(***************************************************************************)
(* C15.  life_events is append-only: no entry is ever removed, reordered   *)
(* or rewritten, so the log before any step is a prefix of the log after   *)
(* it, across yearly steps and finalization.                               *)
(***************************************************************************)
IsPrefix(s, t) == Len(s) <= Len(t) /\ SubSeq(t, 1, Len(s)) = s

C15_AppendOnly ==
    [][created => /\ person'.life_events = person.life_events
                  /\ IsPrefix(log, log')]_vars

C15_Witness ==
    /\ pc = "done"
    /\ Len(log) = 6
    /\ log[2].kind = "Completed"
    /\ log[4].kind = "Event"
    /\ log[5].kind = "Event"

(***************************************************************************)
(* C16.  The finalized log holds exactly one birth entry, two entries if   *)
(* the Person reached age 22 ("Completed" immediately followed by "Started *)
(* career as", both at age 22 and before any random event of that year),   *)
(* one entry per year in which the random event fired, and one death       *)
(* entry; income redraws and health declines add no entry.                 *)
(***************************************************************************)
NumKind(l, kind) == Cardinality({i \in 1..Len(l) : l[i].kind = kind})

C16_LogCount ==
    /\ [](pc = "done" =>
            LET l == log
                career_entries == IF person.age >= 22 THEN 1 ELSE 0
            IN  /\ NumKind(l, "Born in") = 1
                /\ NumKind(l, "Completed") = career_entries
                /\ NumKind(l, "Started career as") = career_entries
                /\ NumKind(l, "Died at age") = 1
                /\ Len(l) = 1 + 2 * career_entries + NumKind(l, "Event") + 1
                /\ \A i \in 1..Len(l) : l[i].kind = "Completed" =>
                      /\ l[i].age = 22
                      /\ i < Len(l)
                      /\ l[i + 1].kind = "Started career as"
                      /\ l[i + 1].age = 22
                      /\ \A j \in 1..i : ~(l[j].kind = "Event" /\ l[j].age = 22))
    /\ [][(pc = "while" /\ pc' = "death") =>
            /\ NumKind(log', "Event") - NumKind(log, "Event")
                  = IF fires(drawn'.fire) THEN 1 ELSE 0
            /\ Len(log') - Len(log)
                  = (IF person'.age = 22 THEN 2 ELSE 0)
                    + (IF fires(drawn'.fire) THEN 1 ELSE 0)]_vars

C16_Witness ==
    /\ pc = "done"
    /\ person.age > 40
    /\ person.health < 55
    /\ Len(log) = 6
    /\ log[4] = Happened(22, "Got promoted at work")
    /\ log[5].kind = "Event"

(***************************************************************************)
(* C19.  Starting health lies in [55, 95] (rural 60..90, suburban 65..95,  *)
(* urban 55..85), so the clamp to [20, 100] never changes the value; the   *)
(* simulation loop is therefore entered at least once, a finalized Person  *)
(* has age >= 19, and health cannot reach 0 before age 68.                 *)
(***************************************************************************)
StartingRange ==
    [rural |-> 60..90, suburban |-> 65..95, urban |-> 55..85]

C19_StartingHealth ==
    /\ (pc = "while" /\ calls = 0) =>
          /\ person.health = health_modifiers[person.location_type] + drawn.offset
          /\ person.health \in StartingRange[person.location_type]
          /\ person.health \in 55..95
          /\ alive(person)
    /\ pc = "done" => (calls >= 1 /\ person.age >= 19)
    /\ (created /\ person.health = 0) => person.age >= 68

C19_Witness ==
    /\ pc = "death"
    /\ person.health = 0
    /\ person.age = 68
    /\ log[1] = Born("urban", 55)

(***************************************************************************)
(* C20.  The death probability, evaluated after the year's age increment   *)
(* and health decline, is max(1, 2*(age - 60) + (100 - health))            *)
(* thousandths and lies between 0.001 and 0.170 in every reachable state,  *)
(* so after every simulated year both dying and surviving are possible and *)
(* every final age from 19 to 95 is reachable.                             *)
(***************************************************************************)
Thousandths(p) == Max(1, 2 * (p.age - 60) + (100 - p.health))

\* the values random.random() can return, in 1/2000ths
UnitInterval == 0..1999

C20_DeathProbability ==
    /\ [](pc = "death" =>
            /\ person.age \in 19..95
            /\ 1000 * death_probability(person) = 2000 * Thousandths(person)
            /\ Thousandths(person) \in 1..170
            /\ \E r \in UnitInterval : r < death_probability(person)
            /\ \E r \in UnitInterval : ~(r < death_probability(person)))
    /\ [][pc = "death" =>
            /\ UNCHANGED <<person, heap>>
            /\ pc' = "exit" <=> drawn'.death < death_probability(person)
            /\ pc' = "while" <=> ~(drawn'.death < death_probability(person))]_vars

C20_Witness ==
    /\ pc = "done"
    /\ person.age = 95
    /\ person.health = 0
    /\ drawn.death = 1

(***************************************************************************)
(* Two lives on one simulator.  A second simulate_life runs on the same    *)
(* LifeSimulator and the same heap of list objects; its steps interleave   *)
(* with the steps of the first in any order.  Each life draws from its own *)
(* stream.  Beside each life runs a copy of it alone in a fresh world,     *)
(* taking the same draws: twin for the first life, other.alone for the     *)
(* second.                                                                 *)
(***************************************************************************)
\* lives ended by the death draw at any age, or by health reaching 0
SourcePair ==
    [first_name |-> {1}, last_name |-> {1},
     location   |-> {1, 3},
     offset     |-> {-15},
     edu        |-> {1001},
     career     |-> {1},
     income     |-> {0},
     decline    |-> {2},
     fire       |-> {1999},
     event      |-> {1},
     death      |-> {1, 1999}]

\* the second life as its caller sees it
OtherWorld == [person |-> other.person, heap |-> heap, simulator |-> simulator]

\* the second life takes the step op, and so does its copy
OtherApply(op(_)) ==
    /\ other' = [other EXCEPT !.person = op(OtherWorld).person,
                              !.alone = op(other.alone),
                              !.pc = IF @ = "start" THEN "while"
                                     ELSE IF @ = "while" THEN "death" ELSE "done"]
    /\ heap' = op(OtherWorld).heap
    /\ simulator' = op(OtherWorld).simulator
    /\ UNCHANGED <<pc, person, rng, twin, calls, fs, drawn, gui>>

OtherGenerateStartingConditions ==
    /\ other # None
    /\ other.pc = "start"
    /\ \E d \in StartDraws : OtherApply(LAMBDA w : generate_starting_conditions(w, d))

OtherSimulateYear ==
    /\ other # None
    /\ other.pc = "while"
    /\ alive(other.person)
    /\ \E d \in YearDrawsOf(other.person, heap) : OtherApply(LAMBDA w : simulate_year(w, d))

OtherLoopExit ==
    /\ other # None
    /\ other.pc = "while"
    /\ ~alive(other.person)
    /\ other' = [other EXCEPT !.pc = "exit"]
    /\ UNCHANGED <<pc, person, heap, simulator, rng, twin, calls, fs, drawn, gui>>

OtherDeathDraw ==
    /\ other # None
    /\ other.pc = "death"
    /\ \E r \in rng.death :
          other' = [other EXCEPT !.pc = IF r < death_probability(other.person)
                                        THEN "exit" ELSE "while"]
    /\ UNCHANGED <<pc, person, heap, simulator, rng, twin, calls, fs, drawn, gui>>

OtherFinalize ==
    /\ other # None
    /\ other.pc = "exit"
    /\ OtherApply(finalize)

InitPair ==
    /\ pc = "start"
    /\ person = None
    /\ heap = <<>>
    /\ simulator = Constructed(LoadedIncomeData)
    /\ fs = InstalledFs
    /\ rng = SourcePair
    /\ twin = Fresh(LoadedIncomeData)
    /\ calls = 0
    /\ drawn = None
    /\ gui = None
    /\ other = [pc |-> "start", person |-> None, alone |-> Fresh(LoadedIncomeData)]

NextPair ==
    \/ GenerateStartingConditions
    \/ SimulateYear
    \/ LoopExit
    \/ DeathDraw
    \/ Finalize
    \/ OtherGenerateStartingConditions
    \/ OtherSimulateYear
    \/ OtherLoopExit
    \/ OtherDeathDraw
    \/ OtherFinalize

SpecPair == InitPair /\ [][NextPair]_vars

(***************************************************************************)
(* C17.  Independent lives do not interfere: with the year-steps of two    *)
(* simulate_life runs on the same simulator interleaved in any order, a    *)
(* step of one life never changes a field or the event log of the other    *)
(* life's Person (each Person owns its own life_events list) nor the       *)
(* simulator's tables, and each life's trajectory equals the one produced  *)
(* alone from the same draws.                                              *)
(***************************************************************************)
C17_NoInterference ==
    /\ [](simulator = Constructed(LoadedIncomeData))
    /\ []((person # None /\ other.person # None) =>
              person.life_events # other.person.life_events)
    /\ [](View(World) = View(twin))
    /\ [](View(OtherWorld) = View(other.alone))
    /\ [][other' # other => View(World)' = View(World)]_vars
    /\ [][(pc' # pc \/ person' # person) =>
              (other' = other /\ View(OtherWorld)' = View(OtherWorld))]_vars

\* both lives finished with their age-22 entries logged, the second life
\* created first (it owns list 1) and ended last
C17_Witness ==
    /\ pc = "done"
    /\ other.pc = "done"
    /\ person.age = 23
    /\ other.person.age = 39
    /\ person.life_events = 2
    /\ person.location_type # other.person.location_type
    /\ Len(log) = 4
    /\ Len(heap[other.person.life_events]) = 4

(***************************************************************************)
(* run_gui.  The window holds the session history session_lives, the lives *)
(* shown in the text area, and the text of the batch-size spinbox; `saved` *)
(* is the file the user last chose in the save dialog.  Each callback runs *)
(* to completion before Tk dispatches the next one; `handler` names the    *)
(* callback that ran last.  A whole life is simulated inside a callback,   *)
(* from one tape of draws.                                                 *)
(***************************************************************************)
\* most summaries in a session, and the largest batch size typed
MaxLives == 4
MaxBatch == 2

\* the draws of one life: the starting draws, the draws of every year, and
\* the value every death draw returns
TapeShort ==
    [start |-> [location |-> 3, offset |-> -15, first_name |-> 1, last_name |-> 1],
     year  |-> [edu |-> 1001, career |-> 1, income |-> 0, decline |-> 2,
                fire |-> 1, event |-> 3],
     death |-> 1]

TapeCareer ==
    [start |-> [location |-> 1, offset |-> 0, first_name |-> 1, last_name |-> 1],
     year  |-> [edu |-> 0, career |-> 1, income |-> 1, decline |-> 1,
                fire |-> 1999, event |-> 0],
     death |-> 21]

TapeLong ==
    [start |-> [location |-> 2, offset |-> 15, first_name |-> 1, last_name |-> 1],
     year  |-> [edu |-> 500, career |-> 1, income |-> 0, decline |-> 0,
                fire |-> 1999, event |-> 0],
     death |-> 1999]

LifeTapes == {TapeShort, TapeCareer, TapeLong}

RECURSIVE life_loop(_, _)
\* the while loop of simulate_life
life_loop(w, tape) ==
    IF ~alive(w.person) THEN w
    ELSE LET year == simulate_year(w, tape.year)
         IN  IF tape.death < death_probability(year.person) THEN year
             ELSE life_loop(year, tape)

simulate_life(w, tape) ==
    finalize(life_loop(generate_starting_conditions(w, tape.start), tape))

\* the summary text: the fields it prints, then one line per life event
format_life_summary(w) ==
    [Name |-> w.person.name,
     Died_at_age |-> w.person.age,
     Final_education |-> w.person.education_level,
     Final_career |-> w.person.career,
     Final_income |-> w.person.income,
     Final_health |-> w.person.health,
     Location_type |-> w.person.location_type,
     MAJOR_LIFE_EVENTS |-> w.heap[w.person.life_events]]

RECURSIVE simulate_lives(_, _, _, _)
\* the for loop of simulate_and_display, from its i-th pass on
simulate_lives(g, w, tapes, i) ==
    IF i > Len(tapes) THEN [gui |-> g, world |-> w]
    ELSE LET life    == simulate_life(w, tapes[i])
             summary == format_life_summary(life)
         IN  simulate_lives([g EXCEPT !.session_lives = Append(@, summary),
                                      !.lives = Append(@, summary)],
                            life, tapes, i + 1)

\* simulate_and_display(n), n the number of tapes
simulate_and_display(g, w, tapes) ==
    simulate_lives([g EXCEPT !.lives = <<>>], w, tapes, 1)

\* run_again without the floor: count = int(count)
batch_count_unclamped(text) ==
    IF text.numeric THEN text.value ELSE 1

\* run_again: count = max(1, int(count)), 1 on ValueError
batch_count(text) ==
    IF text.numeric THEN Max(1, text.value) ELSE 1

\* what the save dialog and the file system answer
SaveOutcomes == {"cancelled", "open_raises", "write_raises", "written"}

save_all(g, outcome) ==
    IF g.session_lives = <<>> THEN g
    ELSE IF outcome = "cancelled" THEN g
    ELSE IF outcome = "open_raises" THEN g
    ELSE IF outcome = "write_raises" THEN [g EXCEPT !.saved = [content |-> <<>>]]
    ELSE [g EXCEPT !.saved = [content |-> g.session_lives]]

\* the texts the spinbox can hold, as int() reads them
SpinboxTexts == {Num(n) : n \in -1..MaxBatch} \cup {NotANumber}

GuiStep(result, name) ==
    /\ gui' = [result.gui EXCEPT !.handler = name]
    /\ heap' = result.world.heap
    /\ simulator' = result.world.simulator
    /\ UNCHANGED <<person, rng, twin, calls, fs, drawn, other>>

\* run_gui: simulate_and_display() before the main loop
InitialSimulation ==
    /\ pc = "run_gui"
    /\ \E tape \in LifeTapes :
          GuiStep(simulate_and_display(gui, World, <<tape>>), "simulate_and_display")
    /\ pc' = "mainloop"

\* the user edits the batch size
EditBatchSize ==
    /\ pc = "mainloop"
    /\ \E text \in SpinboxTexts :
          gui' = [gui EXCEPT !.batch_spinbox = text, !.handler = "spinbox"]
    /\ UNCHANGED <<pc, person, heap, simulator, rng, twin, calls, fs, drawn, other>>

\* the Run Again button
RunAgain ==
    /\ pc = "mainloop"
    /\ LET count == batch_count(gui.batch_spinbox)
       IN  /\ Len(gui.session_lives) + count <= MaxLives
           /\ \E tapes \in [1..count -> LifeTapes] :
                 GuiStep(simulate_and_display(gui, World, tapes), "run_again")
    /\ UNCHANGED pc

\* the Save Session button
SaveAll ==
    /\ pc = "mainloop"
    /\ \E outcome \in SaveOutcomes :
          gui' = [save_all(gui, outcome) EXCEPT !.handler = "save_all"]
    /\ UNCHANGED <<pc, person, heap, simulator, rng, twin, calls, fs, drawn, other>>

InitGui ==
    /\ pc = "run_gui"
    /\ person = None
    /\ heap = <<>>
    /\ simulator = Constructed(LoadedIncomeData)
    /\ fs = InstalledFs
    /\ rng = SourceHealth
    /\ twin = None
    /\ calls = 0
    /\ drawn = None
    /\ other = None
    /\ gui = [session_lives |-> <<>>, lives |-> <<>>, batch_spinbox |-> Num(1),
              saved |-> None, handler |-> "run_gui"]

NextGui ==
    \/ InitialSimulation
    \/ EditBatchSize
    \/ RunAgain
    \/ SaveAll

SpecGui == InitGui /\ [][NextGui]_vars

(***************************************************************************)
(* C18.  In a GUI session session_lives only grows: each batch run appends *)
(* exactly n summaries in generation order, n = max(1, int(count)) and     *)
(* n = 1 when the batch-size text is not an integer; save_all, whether it  *)
(* succeeds, is cancelled, runs on an empty history or fails with a file   *)
(* error, never removes, alters or reorders a stored summary.              *)
(***************************************************************************)
Requested(text) == IF ~text.numeric THEN 1 ELSE IF text.value < 1 THEN 1 ELSE text.value

C18_HistoryGrows ==
    /\ [][IsPrefix(gui.session_lives, gui'.session_lives)]_vars
    /\ [][(gui'.handler = "run_again" /\ gui' # gui) =>
            LET n   == Requested(gui.batch_spinbox)
                old == Len(gui.session_lives)
            IN  /\ Len(gui'.lives) = n
                /\ gui'.session_lives = gui.session_lives \o gui'.lives
                /\ Len(heap') = Len(heap) + n
                /\ \A k \in 1..n :
                      gui'.session_lives[old + k].MAJOR_LIFE_EVENTS = heap'[Len(heap) + k]]_vars
    /\ [][(gui'.handler = "save_all" /\ gui' # gui) =>
            gui'.session_lives = gui.session_lives]_vars
    /\ [](gui.saved # None =>
            \/ gui.saved.content = <<>>
            \/ IsPrefix(gui.saved.content, gui.session_lives))

\* four summaries stored, the last two by one batch, and a save whose write
\* failed left an empty file without touching the history
C18_Witness ==
    /\ pc = "mainloop"
    /\ gui.handler = "save_all"
    /\ gui.saved = [content |-> <<>>]
    /\ Len(gui.session_lives) = 4
    /\ Len(gui.lives) = 2
    /\ gui.session_lives[2].Died_at_age = 19
    /\ gui.session_lives[3].Died_at_age = 95
    /\ gui.session_lives[4].Final_career # "student"

====
